---- MODULE Spec2Model ----
(***************************************************************************)
(* ISS tracker dashboard (src/main.py): the proximity test, the night      *)
(* window test, and the script pass of main() with its session state, its  *)
(* widget state and the two time-to-live caches of st.cache_data.          *)
(*                                                                         *)
(* Numbers.  Coordinates are fixed-point integers in units of 10^-7        *)
(* degree (Deg units per degree), fine enough for the default relative     *)
(* tolerance of math.isclose (10^-9) to be visible at longitudes above 100 *)
(* degrees.  Instants are integers: ticks of 1/TicksPerSec second in the   *)
(* program specification, abstract instants in the night-window            *)
(* specification.  An optional value is a set of at most one element;      *)
(* Python's None is the empty set.  A call's outcome is a record: the      *)
(* exception raised ("none" when it returned) and the value returned.      *)
(***************************************************************************)
EXTENDS Integers, FiniteSets, Sequences, TLC

VARIABLES
    clock,              \* wall clock, what datetime.now() returns
    advances,           \* number of times the clock has been advanced
    last_update,        \* st.session_state.last_update, None while not set
    auto_refresh,       \* widget state of the "Auto-refresh (60s)" checkbox
    selected_location,  \* widget state of the preset selectbox
    number_input,       \* widget state of the Latitude / Longitude inputs
    cache_data,         \* st.cache_data: one entry per cached function
    pending,            \* trigger of the queued script run, "none" when idle
    view,               \* what the latest script run did and rendered
    args,               \* arguments of the function under test
    result              \* its outcome, None before the call

vars == <<clock, advances, last_update, auto_refresh, selected_location,
          number_input, cache_data, pending, view, args, result>>

progVars == <<advances, last_update, auto_refresh, selected_location,
              number_input, cache_data, pending, view>>

----------------------------------------------------------------------------
(* Bounds and scales *)

Deg == 10^7                 \* coordinate units per degree
TicksPerSec == 2            \* clock ticks per second
MaxAdvances == 2            \* the clock is advanced at most this many times
MaxInstant == 23            \* instants of the night-window specification: 0..MaxInstant

None == {}
Some(x) == {x}
The(opt) == CHOOSE x \in opt : TRUE

Returned(v) == [exc |-> "none", value |-> v]
Raised(e) == [exc |-> e, value |-> FALSE]

Abs(x) == IF x < 0 THEN -x ELSE x
Max2(x, y) == IF x >= y THEN x ELSE y

----------------------------------------------------------------------------
(* math.isclose and is_iss_nearby *)

rel_tol_inv == 10^9         \* math.isclose default rel_tol = 1e-09, as 1/rel_tol

\* fabs(b - a) <= x, written without forming b - a: two longitudes of
\* opposite sign can differ by more than a 32-bit integer holds.
fabs_le(a, b, x) == a <= b + x /\ b <= a + x

\* Mutant: strict comparison, the boundary is excluded.
isclose_strict(a, b, abs_tol) ==
    IF abs_tol < 0 THEN Raised("ValueError")
    ELSE LET tol == Max2(Max2(Abs(a) \div rel_tol_inv, Abs(b) \div rel_tol_inv), abs_tol)
         IN  Returned(fabs_le(a, b, tol) /\ ~ (a = b + tol \/ b = a + tol))

\* Mutant: a negative tolerance is clamped to 0 instead of being rejected.
isclose_clamped(a, b, abs_tol) ==
    LET tol == Max2(Max2(Abs(a) \div rel_tol_inv, Abs(b) \div rel_tol_inv),
                    Max2(abs_tol, 0))
    IN  Returned(fabs_le(a, b, tol))

\* Mutant: the difference is compared with its sign (fabs is missing).
isclose_signed(a, b, abs_tol) ==
    IF abs_tol < 0 THEN Raised("ValueError")
    ELSE LET tol == Max2(Max2(Abs(a) \div rel_tol_inv, Abs(b) \div rel_tol_inv), abs_tol)
         IN  Returned(b <= a + tol)

\* math.isclose(a, b, abs_tol=abs_tol) with the default rel_tol:
\*   ValueError for a negative tolerance, else
\*   fabs(b-a) <= fabs(rel_tol*b) or fabs(b-a) <= fabs(rel_tol*a) or fabs(b-a) <= abs_tol.
\* For an integer difference d, d <= rel_tol*|a| iff d <= |a| \div (1/rel_tol).
isclose(a, b, abs_tol) ==
    IF abs_tol < 0 THEN Raised("ValueError")
    ELSE LET tol == Max2(Max2(Abs(a) \div rel_tol_inv, Abs(b) \div rel_tol_inv), abs_tol)
         IN  Returned(fabs_le(a, b, tol))

\* Python's "x and y" over call outcomes: an exception in x propagates, a
\* false x short-circuits (y is not evaluated), else the outcome is that of y.
py_and(x, y) ==
    IF x.exc # "none" THEN x
    ELSE IF ~ x.value THEN x
    ELSE y

tolerance_default == 5      \* degrees

is_iss_nearby(iss_lat, iss_lng, user_lat, user_lng, tolerance) ==
    py_and(isclose(iss_lat, user_lat, tolerance), isclose(iss_lng, user_lng, tolerance))

----------------------------------------------------------------------------
(* is_nighttime *)

\* Mutant: the boundaries count as night.
is_nighttime_inclusive(sunrise_sunset_data, now) ==
    IF sunrise_sunset_data = None THEN FALSE
    ELSE LET sunrise == The(sunrise_sunset_data).sunrise
             sunset  == The(sunrise_sunset_data).sunset
         IN  IF sunset > sunrise
             THEN now =< sunrise \/ now >= sunset
             ELSE now >= sunset /\ now =< sunrise

\* Mutant: the inverted branch is missing.
is_nighttime_one_branch(sunrise_sunset_data, now) ==
    IF sunrise_sunset_data = None THEN FALSE
    ELSE LET sunrise == The(sunrise_sunset_data).sunrise
             sunset  == The(sunrise_sunset_data).sunset
         IN  now < sunrise \/ now > sunset

\* Mutant: the inverted branch wraps around the end of the day.
is_nighttime_wraps(sunrise_sunset_data, now) ==
    IF sunrise_sunset_data = None THEN FALSE
    ELSE LET sunrise == The(sunrise_sunset_data).sunrise
             sunset  == The(sunrise_sunset_data).sunset
         IN  IF sunset > sunrise
             THEN now < sunrise \/ now > sunset
             ELSE now < sunset \/ now > sunrise

\* Mutant: a missing window counts as night.
is_nighttime_dark_without_window(sunrise_sunset_data, now) ==
    IF sunrise_sunset_data = None THEN TRUE
    ELSE LET sunrise == The(sunrise_sunset_data).sunrise
             sunset  == The(sunrise_sunset_data).sunset
         IN  IF sunset > sunrise
             THEN now < sunrise \/ now > sunset
             ELSE now > sunset /\ now < sunrise

\* now is datetime.now(tz of sunrise): the same instant as the wall clock,
\* so the comparison of aware datetimes is a comparison of instants.
is_nighttime(sunrise_sunset_data, now) ==
    IF sunrise_sunset_data = None THEN FALSE
    ELSE LET sunrise == The(sunrise_sunset_data).sunrise
             sunset  == The(sunrise_sunset_data).sunset
         IN  IF sunset > sunrise
             THEN now < sunrise \/ now > sunset
             ELSE now > sunset /\ now < sunrise

----------------------------------------------------------------------------
(* Program constants and data of main.py *)

iss_ttl == 60               \* seconds, @st.cache_data(ttl=60)
astronauts_ttl == 3600      \* seconds, @st.cache_data(ttl=3600)
refresh_interval == 60      \* seconds, "time_since_update >= 60"
documented_sun_interval == 3600  \* seconds, "Sunrise/Sunset: Every hour"

Seconds(n) == n * TicksPerSec

Pos(lat, lng) == [lat |-> lat, lng |-> lng]

preset_locations ==
    [name \in {"Mobile, AL", "New York City", "Los Angeles", "London", "Tokyo", "Sydney"} |->
        CASE name = "Mobile, AL"    -> Pos(306732900, -881111530)
          [] name = "New York City" -> Pos(407128000, -740060000)
          [] name = "Los Angeles"   -> Pos(340522000, -1182437000)
          [] name = "London"        -> Pos(515074000, -1278000)
          [] name = "Tokyo"         -> Pos(356762000, 1396503000)
          [] name = "Sydney"        -> Pos(-338688000, 1512093000)]

\* What the position feed can answer: a position exactly 5 degrees from the
\* default observer on both axes.
IssPositions ==
    {Pos(356732900, -831111530)}

\* What the crew feed can answer.
Rosters ==
    {[count |-> 2, astronauts |-> <<[craft |-> "ISS", name |-> "A"],
                                    [craft |-> "ISS", name |-> "B"]>>]}

\* What the day-window feed can answer, in clock ticks: a window that opens
\* within the first minute.
SunWindows ==
    {[sunrise |-> 100, sunset |-> 7000]}

\* Presets the user picks in the selectbox.
SelectablePresets == {"Mobile, AL", "Sydney"}

\* Values the user types into the Latitude and Longitude inputs: the
\* default, and one unit further away from the position above.
TypedLatitudes == {306732900, 306732899}
TypedLongitudes == {-881111530, -881111531}

\* Amounts by which the clock moves between two user interactions: one tick,
\* one tick short of a minute, and the rest of an hour.
AdvanceSteps == {1, Seconds(60) - 1, Seconds(3540)}

----------------------------------------------------------------------------
(* st.cache_data *)

NoEntry == [present |-> FALSE, value |-> None, stored_at |-> 0]

\* st.cache_data.clear(): every cached function loses its entry.
cache_clear == [get_iss_location |-> NoEntry, get_astronauts |-> NoEntry]

\* An entry is served while it is younger than its ttl.
cache_hit(entry, ttl, now) == entry.present /\ now - entry.stored_at < Seconds(ttl)

\* A call of a cached function: the stored value on a hit, else the body
\* runs (response is what the HTTP request yields, None on any exception)
\* and its return value, None included, is stored.
cached_call(entry, ttl, now, response) ==
    IF cache_hit(entry, ttl, now)
    THEN [entry |-> entry, value |-> entry.value, requested |-> FALSE]
    ELSE [entry |-> [present |-> TRUE, value |-> response, stored_at |-> now],
          value |-> response, requested |-> TRUE]

----------------------------------------------------------------------------
(* State of a session before its first script run *)

NoView ==
    [outcome |-> "none", auto_refresh |-> FALSE,
     time_since_update |-> -1, gate |-> "none",
     user |-> None, iss_location |-> None, astronaut_data |-> None,
     sun_data |-> None,
     errors |-> {}, metrics |-> {}, is_nearby |-> None, is_dark |-> None,
     signals |-> {}, crew_list |-> FALSE]

ProgInit ==
    /\ advances = 0
    /\ last_update = None
    /\ auto_refresh = FALSE
    /\ selected_location = "Mobile, AL"
    /\ number_input = Pos(306732900, -881111530)
    /\ cache_data = cache_clear
    /\ pending = "load"
    /\ view = NoView

----------------------------------------------------------------------------
(* main(): one script run, from the top to st.rerun(), return or the end *)

Optional(S) == {None} \cup {Some(x) : x \in S}

\* Lines 179-182: last_update is created on first use, then the elapsed
\* time since it is measured.
session_last_update == IF last_update = None THEN clock ELSE The(last_update)

time_since_update == clock - session_last_update

\* Mutant: the gate needs more than the interval.
should_auto_refresh_late(enabled, elapsed) ==
    enabled /\ elapsed > Seconds(refresh_interval)

\* Line 186: "if auto_refresh and time_since_update >= 60".
should_auto_refresh(enabled, elapsed) ==
    enabled /\ elapsed >= Seconds(refresh_interval)

\* Mutant: the refresh forgets to restart the interval.
refreshed_last_update_stale(now) == Some(session_last_update)

\* Line 187: "st.session_state.last_update = datetime.now()".
refreshed_last_update(now) == Some(now)

\* Mutant: either predicate alone raises the signal.
visibility_signal_either(is_nearby, is_dark) ==
    IF is_nearby \/ is_dark THEN "LOOK UP" ELSE "not visible"

\* Lines 300-303.
visibility_signal(is_nearby, is_dark) ==
    IF is_nearby /\ is_dark THEN "LOOK UP" ELSE "not visible"

\* The part of the view every run shares: the widget values it read
\* (lines 157-158, 176).
PassView ==
    [NoView EXCEPT !.auto_refresh = auto_refresh, !.user = Some(number_input)]

\* Lines 171-173: the preset button was pressed; the locals take the preset
\* and the script is rerun from the top.
RunPresetRerun ==
    /\ pending = "preset_btn"
    /\ view' = [PassView EXCEPT !.outcome = "rerun_preset",
                                !.user = Some(preset_locations[selected_location])]
    /\ pending' = "rerun"
    /\ UNCHANGED <<clock, advances, last_update, auto_refresh, selected_location,
                   number_input, cache_data, args, result>>

\* Lines 176-189: the gate is open; last_update takes the clock (lines 182
\* and 187 read it within the same tick), the caches are cleared and the
\* script is rerun.
RunAutoRefresh ==
    /\ pending \in {"load", "widget", "refresh_btn", "rerun"}
    /\ should_auto_refresh(auto_refresh, time_since_update)
    /\ last_update' = refreshed_last_update(clock)
    /\ cache_data' = cache_clear
    /\ pending' = "rerun"
    /\ view' = [PassView EXCEPT !.outcome = "rerun_auto", !.gate = "taken",
                                !.time_since_update = time_since_update]
    /\ UNCHANGED <<clock, advances, auto_refresh, selected_location, number_input,
                   args, result>>

\* Lines 176-194: the gate is closed and "Refresh Now" was pressed; the
\* caches are cleared and the script is rerun.
RunManualRefresh ==
    /\ pending = "refresh_btn"
    /\ ~ should_auto_refresh(auto_refresh, time_since_update)
    /\ last_update' = Some(session_last_update)
    /\ cache_data' = cache_clear
    /\ pending' = "rerun"
    /\ view' = [PassView EXCEPT !.outcome = "rerun_manual", !.gate = "skipped",
                                !.time_since_update = time_since_update]
    /\ UNCHANGED <<clock, advances, auto_refresh, selected_location, number_input,
                   args, result>>

\* Lines 196-199: both cached getters are called.
FetchIss(response) ==
    cached_call(cache_data.get_iss_location, iss_ttl, clock, response)

FetchAstronauts(response) ==
    cached_call(cache_data.get_astronauts, astronauts_ttl, clock, response)

\* st.error of a getter whose value is None (replayed by the cache on a hit).
GetterErrors(iss_location, astronaut_data) ==
    (IF iss_location = None THEN {"Error fetching ISS location"} ELSE {})
    \cup (IF astronaut_data = None THEN {"Error fetching astronaut data"} ELSE {})

\* Lines 176-203: no button, gate closed, and there is no position: the run
\* reports it and returns.
RunNoPosition ==
    /\ pending \in {"load", "widget", "rerun"}
    /\ ~ should_auto_refresh(auto_refresh, time_since_update)
    /\ \E iss_response \in Optional(IssPositions), astro_response \in Optional(Rosters) :
         LET iss == FetchIss(iss_response)
             astro == FetchAstronauts(astro_response)
         IN  /\ iss.value = None
             /\ cache_data' = [get_iss_location |-> iss.entry, get_astronauts |-> astro.entry]
             /\ view' = [PassView EXCEPT
                   !.outcome = "no_iss", !.gate = "skipped",
                   !.time_since_update = time_since_update,
                   !.iss_location = iss.value, !.astronaut_data = astro.value,
                   !.errors = GetterErrors(iss.value, astro.value)
                                 \cup {"Unable to fetch ISS data"}]
    /\ last_update' = Some(session_last_update)
    /\ pending' = "none"
    /\ UNCHANGED <<clock, advances, auto_refresh, selected_location, number_input,
                   args, result>>

\* Lines 176-373: no button, gate closed, and there is a position: metrics,
\* the day window of the observer, the visibility section, the crew list.
RunComplete ==
    /\ pending \in {"load", "widget", "rerun"}
    /\ ~ should_auto_refresh(auto_refresh, time_since_update)
    /\ \E iss_response \in Optional(IssPositions), astro_response \in Optional(Rosters),
          sun_data \in Optional(SunWindows) :
         LET iss == FetchIss(iss_response)
             astro == FetchAstronauts(astro_response)
             iss_location == The(iss.value)
             is_nearby == is_iss_nearby(iss_location.lat, iss_location.lng,
                                        number_input.lat, number_input.lng,
                                        tolerance_default * Deg).value
             is_dark == IF sun_data # None THEN is_nighttime(sun_data, clock) ELSE FALSE
         IN  /\ iss.value # None
             /\ cache_data' = [get_iss_location |-> iss.entry, get_astronauts |-> astro.entry]
             /\ view' = [PassView EXCEPT
                   !.outcome = "complete", !.gate = "skipped",
                   !.time_since_update = time_since_update,
                   !.iss_location = iss.value, !.astronaut_data = astro.value,
                   !.sun_data = sun_data,
                   !.errors = GetterErrors(iss.value, astro.value)
                                 \cup (IF sun_data = None
                                       THEN {"Error fetching sunrise/sunset data"} ELSE {}),
                   !.metrics = {"Latitude", "Longitude", "Distance"}
                                 \cup (IF astro.value # None
                                       THEN {"Astronauts"} ELSE {"Astronauts: Error"}),
                   !.is_nearby = Some(is_nearby), !.is_dark = Some(is_dark),
                   !.signals = {IF is_nearby THEN "nearby" ELSE "not nearby",
                                IF is_dark THEN "dark" ELSE "daylight",
                                visibility_signal(is_nearby, is_dark)}
                                 \cup (IF sun_data # None THEN {"sun times"} ELSE {}),
                   !.crew_list = (astro.value # None
                                  /\ Len(The(astro.value).astronauts) > 0)]
    /\ last_update' = Some(session_last_update)
    /\ pending' = "none"
    /\ UNCHANGED <<clock, advances, auto_refresh, selected_location, number_input,
                   args, result>>

----------------------------------------------------------------------------
(* The user and the clock, between two script runs *)

ToggleAutoRefresh ==
    /\ pending = "none"
    /\ auto_refresh' = ~ auto_refresh
    /\ pending' = "widget"
    /\ UNCHANGED <<clock, advances, last_update, selected_location, number_input,
                   cache_data, view, args, result>>

SelectPreset ==
    /\ pending = "none"
    /\ \E name \in SelectablePresets :
          /\ name # selected_location
          /\ selected_location' = name
    /\ pending' = "widget"
    /\ UNCHANGED <<clock, advances, last_update, auto_refresh, number_input,
                   cache_data, view, args, result>>

EditLatitude ==
    /\ pending = "none"
    /\ \E v \in TypedLatitudes :
          /\ v # number_input.lat
          /\ number_input' = [number_input EXCEPT !.lat = v]
    /\ pending' = "widget"
    /\ UNCHANGED <<clock, advances, last_update, auto_refresh, selected_location,
                   cache_data, view, args, result>>

EditLongitude ==
    /\ pending = "none"
    /\ \E v \in TypedLongitudes :
          /\ v # number_input.lng
          /\ number_input' = [number_input EXCEPT !.lng = v]
    /\ pending' = "widget"
    /\ UNCHANGED <<clock, advances, last_update, auto_refresh, selected_location,
                   cache_data, view, args, result>>

ClickUsePreset ==
    /\ pending = "none"
    /\ pending' = "preset_btn"
    /\ UNCHANGED <<clock, advances, last_update, auto_refresh, selected_location,
                   number_input, cache_data, view, args, result>>

ClickRefreshNow ==
    /\ pending = "none"
    /\ pending' = "refresh_btn"
    /\ UNCHANGED <<clock, advances, last_update, auto_refresh, selected_location,
                   number_input, cache_data, view, args, result>>

Advance ==
    /\ pending = "none"
    /\ advances < MaxAdvances
    /\ \E d \in AdvanceSteps : clock' = clock + d
    /\ advances' = advances + 1
    /\ UNCHANGED <<last_update, auto_refresh, selected_location, number_input,
                   cache_data, pending, view, args, result>>

Init ==
    /\ ProgInit
    /\ clock = 0
    /\ args = None
    /\ result = None

Next ==
    \/ RunPresetRerun
    \/ RunAutoRefresh
    \/ RunManualRefresh
    \/ RunNoPosition
    \/ RunComplete
    \/ ToggleAutoRefresh
    \/ SelectPreset
    \/ EditLatitude
    \/ EditLongitude
    \/ ClickUsePreset
    \/ ClickRefreshNow
    \/ Advance

Spec == Init /\ [][Next]_vars

----------------------------------------------------------------------------
(* Specification of is_iss_nearby as a function of its arguments *)

LatSamples == {-5 * Deg, 0, 5 * Deg, 5 * Deg + 1000}
LngSamples == {0, 5 * Deg, 5 * Deg + 1000, 1512093000, 1512093001}
ToleranceSamples == {-Deg, 0, 2, tolerance_default * Deg}

InitNearby ==
    /\ ProgInit
    /\ clock = 0
    /\ args \in [iss_lat : LatSamples, iss_lng : LngSamples,
                 user_lat : LatSamples, user_lng : LngSamples,
                 tolerance : ToleranceSamples]
    /\ result = None

CallIsIssNearby ==
    /\ result = None
    /\ result' = Some(is_iss_nearby(args.iss_lat, args.iss_lng,
                                    args.user_lat, args.user_lng, args.tolerance))
    /\ UNCHANGED <<clock, args, progVars>>

NextNearby == CallIsIssNearby

SpecNearby == InitNearby /\ [][NextNearby]_vars

----------------------------------------------------------------------------
(* Specification of is_nighttime as a function of its argument and the clock *)

Instants == 0 .. MaxInstant

DayWindows == [sunrise : Instants, sunset : Instants]

InitNight ==
    /\ ProgInit
    /\ clock \in Instants
    /\ args \in [sunrise_sunset_data : Optional(DayWindows)]
    /\ result = None

CallIsNighttime ==
    /\ result = None
    /\ result' = Some(is_nighttime(args.sunrise_sunset_data, clock))
    /\ UNCHANGED <<clock, args, progVars>>

NextNight == CallIsNighttime

SpecNight == InitNight /\ [][NextNight]_vars

----------------------------------------------------------------------------
(* Claims about is_iss_nearby (SpecNearby) *)

Called == result # None

AbsDiff(a, b) == IF a >= b THEN a - b ELSE b - a

WithinBox(t) ==
    /\ AbsDiff(args.iss_lat, args.user_lat) <= t
    /\ AbsDiff(args.iss_lng, args.user_lng) <= t

\* Smallest tolerance above rel_tol times the largest coordinate (180 degrees).
MinExactTol == (180 * Deg) \div rel_tol_inv + 1

\* C1 as stated: for every tolerance t >= 0 the result is true exactly when
\* both axis differences are at most t.
C1_AsStated ==
    (Called /\ args.tolerance >= 0)
        => /\ The(result).exc = "none"
           /\ The(result).value = WithinBox(args.tolerance)

\* C1 amended: for every tolerance t >= 0 a position inside the box of
\* half-width t is nearby (boundary included), and for every t above 1.8e-7
\* degree, the default 5 included, nothing outside the box is nearby.
C1_Nearby ==
    (Called /\ args.tolerance >= 0)
        => /\ The(result).exc = "none"
           /\ WithinBox(args.tolerance) => The(result).value
           /\ args.tolerance >= MinExactTol
                 => The(result).value = WithinBox(args.tolerance)

\* The boundary of the default tolerance: exactly 5 degrees away on both axes.
C1_Witness ==
    /\ Called
    /\ The(result) = Returned(TRUE)
    /\ args.tolerance = tolerance_default * Deg
    /\ AbsDiff(args.iss_lat, args.user_lat) = 5 * Deg
    /\ AbsDiff(args.iss_lng, args.user_lng) = 5 * Deg

SamePosition == args.iss_lat = args.user_lat /\ args.iss_lng = args.user_lng

C12_Symmetric ==
    Called =>
        The(result) = is_iss_nearby(args.user_lat, args.user_lng,
                                    args.iss_lat, args.iss_lng, args.tolerance)

C12_Witness ==
    /\ Called
    /\ args.iss_lat < args.user_lat
    /\ args.iss_lng > args.user_lng
    /\ The(result) = Returned(TRUE)

----------------------------------------------------------------------------
(* Claims about is_nighttime (SpecNight) *)

HasWindow == args.sunrise_sunset_data # None

Window == The(args.sunrise_sunset_data)

\* C2: with a window present, the result is (now < sunrise or now > sunset)
\* when sunset > sunrise and (now > sunset and now < sunrise) otherwise; a
\* window with sunset = sunrise is never night.
C2_Branches ==
    (Called /\ HasWindow) =>
        /\ Window.sunset > Window.sunrise
              => The(result) = (clock < Window.sunrise \/ clock > Window.sunset)
        /\ Window.sunset =< Window.sunrise
              => The(result) = (clock > Window.sunset /\ clock < Window.sunrise)
        /\ Window.sunset = Window.sunrise => The(result) = FALSE

C2_Witness ==
    /\ Called /\ HasWindow
    /\ Window.sunset < Window.sunrise
    /\ clock > Window.sunset /\ clock < Window.sunrise
    /\ The(result) = TRUE

\* C3 as stated: with sunrise = 06:00 and sunset = 02:00 the result is true
\* at 23:00 and at 05:00 and false at 10:00.
C3_AsStated ==
    (Called /\ HasWindow /\ Window = [sunrise |-> 6, sunset |-> 2]) =>
        /\ clock \in {23, 5} => The(result) = TRUE
        /\ clock = 10 => The(result) = FALSE

\* C3 amended: with sunrise = 06:00 and sunset = 02:00 the result is true at
\* 05:00 and false at 10:00 and at 23:00; for every inverted window an
\* instant at or after sunrise, the late evening included, is not night.
C3_Inverted ==
    /\ (Called /\ HasWindow /\ Window = [sunrise |-> 6, sunset |-> 2]) =>
          /\ clock = 5 => The(result) = TRUE
          /\ clock \in {10, 23} => The(result) = FALSE
    /\ (Called /\ HasWindow /\ Window.sunset =< Window.sunrise
           /\ clock >= Window.sunrise) => The(result) = FALSE

C3_Witness ==
    /\ Called /\ HasWindow
    /\ Window = [sunrise |-> 6, sunset |-> 2] /\ clock = 23
    /\ The(result) = FALSE

\* C4: in both branches an instant equal to sunrise or to sunset is not night.
C4_BoundaryIsDay ==
    (Called /\ HasWindow /\ clock \in {Window.sunrise, Window.sunset})
        => The(result) = FALSE

C4_Witness ==
    /\ Called /\ HasWindow
    /\ Window.sunset < Window.sunrise /\ clock = Window.sunset
    /\ The(result) = FALSE

\* C5: without a day window the result is false at every instant (a value
\* is returned, nothing is raised).
C5_NoWindowIsDay ==
    (Called /\ ~ HasWindow) => The(result) = FALSE

C5_Witness ==
    Called /\ ~ HasWindow /\ clock = MaxInstant /\ The(result) = FALSE

----------------------------------------------------------------------------
(* Claims about main() (Spec) *)

Finished == view.outcome \in {"no_iss", "complete"}

\* C6: in a run that reaches the visibility section, "LOOK UP" is shown
\* exactly when is_nearby and is_dark are both true, "not visible" in the
\* three other cases and whenever there is no day window.
C6_Visibility ==
    view.outcome = "complete" =>
        /\ "LOOK UP" \in view.signals <=> (The(view.is_nearby) /\ The(view.is_dark))
        /\ "not visible" \in view.signals <=> ~ (The(view.is_nearby) /\ The(view.is_dark))
        /\ view.sun_data = None => "not visible" \in view.signals

C6_Witness ==
    /\ view.outcome = "complete"
    /\ The(view.is_nearby) /\ The(view.is_dark)
    /\ "LOOK UP" \in view.signals

\* C7: in a run that reaches the gate, the auto-refresh branch is taken
\* exactly when auto-refresh is enabled and the elapsed whole seconds since
\* last_update are at least 60; never while auto-refresh is disabled.
C7_Gate ==
    view.gate # "none" =>
        (view.gate = "taken"
            <=> (view.auto_refresh
                 /\ view.time_since_update \div TicksPerSec >= refresh_interval))

C7_Witness ==
    /\ view.gate = "taken"
    /\ view.auto_refresh
    /\ view.time_since_update = Seconds(refresh_interval)

\* C8: when the gate fires, the caches are empty and last_update is the
\* current instant before the next run starts, and that next run does not
\* fire the gate again: it renders or reports the missing position.
C8_RefreshRestartsInterval ==
    /\ [](view.outcome = "rerun_auto" =>
             /\ cache_data = cache_clear
             /\ last_update = Some(clock)
             /\ pending = "rerun")
    /\ [][view.outcome = "rerun_auto" =>
             /\ view'.gate = "skipped"
             /\ view'.outcome \in {"no_iss", "complete"}]_vars

C8_Witness ==
    /\ view.outcome = "rerun_auto"
    /\ view.time_since_update >= Seconds(refresh_interval)
    /\ last_update = Some(clock)
    /\ cache_data = cache_clear

\* Instant of the latest finished run, the one the view shows.
PassTime == The(last_update) + view.time_since_update

RosterIsYoung ==
    /\ cache_data.get_astronauts.present
    /\ clock - cache_data.get_astronauts.stored_at < Seconds(astronauts_ttl)

\* C9: unless the user asks for a refresh, a crew roster younger than its
\* long interval stays cached (a position refresh does not invalidate it),
\* and the day window is requested again only when its long interval has
\* passed since the run that requested it last.
C9_AsStated ==
    [][/\ (RosterIsYoung /\ pending # "refresh_btn")
            => cache_data'.get_astronauts = cache_data.get_astronauts
       /\ (pending # "none" /\ view.outcome = "complete" /\ view'.outcome = "complete")
            => clock' - PassTime >= Seconds(documented_sun_interval)]_vars

\* C10: a finished run renders every source that is available and signals
\* every source that is missing, each on its own.
C10_AsStated ==
    Finished =>
        /\ view.iss_location # None => {"Latitude", "Longitude"} \subseteq view.metrics
        /\ view.astronaut_data # None => "Astronauts" \in view.metrics
        /\ view.sun_data # None => "sun times" \in view.signals
        /\ view.iss_location = None => "Error fetching ISS location" \in view.errors
        /\ view.astronaut_data = None => "Error fetching astronaut data" \in view.errors
        /\ (view.outcome = "complete" /\ view.sun_data = None)
              => "Error fetching sunrise/sunset data" \in view.errors

\* C13: the run that follows a press of "Use Preset Location" and reaches
\* the metrics computes distance, nearby and the day window for the
\* selected preset as the observer position.
C13_AsStated ==
    [][(view.outcome = "rerun_preset" /\ view'.outcome = "complete")
          => view'.user = Some(preset_locations[selected_location])]_vars

====
